---------------------------- MODULE Spec2Model ----------------------------
(***************************************************************************)
(* Model of the email ingestion daemon (imap-monitor.js with its state     *)
(* manager, imap-client.js, email-processor.js), of the store              *)
(* (database.js) and of the push endpoint (webhook-server.js).             *)
(*                                                                         *)
(* Two operating-system processes share the SQLite file: the mailbox       *)
(* daemon and the webhook server.  Inside one process better-sqlite3 is    *)
(* synchronous, so a storeEmail call of one process is interleaved only    *)
(* with statements of the other process: between its SELECT and its        *)
(* INSERT.                                                                 *)
(*                                                                         *)
(* Environment assumption: the mail library reports in the attributes of a *)
(* fetched message the identifier under which it was fetched (emailData.id *)
(* is the id passed to fetchEmail).                                        *)
(***************************************************************************)
EXTENDS Integers, Sequences, FiniteSets, TLC

(***************************************************************************)
(* Bounds of the model.                                                    *)
(***************************************************************************)
\* messages that arrive in the mailbox during a run of the model
NumMsgs == 2
\* rows of the old-layout store at the start of a migration
MaxOldRows == 2
\* messages that are in the mailbox, read, before the daemon is first started
NumHistorical == 1
\* requests the webhook server accepts in one life of its process
MaxRequests == 3
\* shutdown triggers the daemon receives in one life of its process
MaxTriggers == 3
\* data rows of the producer's sheet
NumRows == 2
\* rows of the store when getEmailsByThread is called
MaxQueryRows == 4

VARIABLES
  emails,      \* store: the rows of table emails, in insertion order
  mailbox,     \* the UIDs present on the mail server
  bad,         \* the UIDs whose message has neither From nor To header
  link,        \* the IMAP connection: "closed", "up", "down"
  daemon,      \* the mailbox daemon process: "starting", "running", "exited"
               \* (inside gracefulShutdown: "stopping", "storeClosed")
  exitCode,    \* exit code of the daemon once exited, else -1
  stateFile,   \* content of current_state.json
  runs,        \* the invocations of the 'mail' handler
  push,        \* the webhook request being handled
  response,    \* the last response the webhook server has sent
  storeLog,    \* per id: the storeEmail calls that returned true
  tmpFile,     \* content of current_state.json.tmp
  upd,         \* the updateState call in progress
  layout,      \* layout of table emails: "none", "old", "new"
  emailsNew,   \* table emails_new
  indexes,     \* the indexes that exist on table emails
  txn,         \* the open SQL transaction: what ROLLBACK restores
  mig,         \* position of initDatabase / migrateSchema
  before,      \* the database as it was when initDatabase was called
  query,       \* the last query of the store and what it returned
  server,      \* the webhook server process and its shutdown
  producer,    \* the run of broadcastMessages in the spreadsheet
  shut         \* what gracefulShutdown of the daemon has done so far

ingestVars == <<emails, mailbox, bad, link, daemon, exitCode, stateFile,
                runs, push, response, storeLog>>

fileVars == <<tmpFile, upd>>

migVars == <<layout, emailsNew, indexes, txn, mig, before>>

extVars == <<query, server, producer, shut>>

vars == <<ingestVars, fileVars, migVars, extVars>>

(***************************************************************************)
(* Values.                                                                 *)
(***************************************************************************)
\* JavaScript null / undefined, and SQL NULL
Null == "<null>"
Undefined == "<undefined>"

\* String(n): an identifier as text
String(n) == ToString(n)

Uids == 1..NumMsgs

Columns == <<"id", "thread_id", "received_at", "downloaded_at", "from_address",
             "to_address", "cc_address", "subject", "labels", "body">>

ColumnSet == {Columns[i] : i \in 1..Len(Columns)}

\* every column but cc_address is declared NOT NULL
NotNullColumns == ColumnSet \ {"cc_address"}

(***************************************************************************)
(* database.js: the SQL statements storeEmail issues.                      *)
(***************************************************************************)
RowsWithId(tbl, id) == {i \in 1..Len(tbl) : tbl[i].id = id}

\* SELECT 1 FROM emails WHERE id = ?
SqlExists(tbl, id) == RowsWithId(tbl, id) # {}

\* the values storeEmail binds to the INSERT
BoundRow(email) ==
  [c \in ColumnSet |->
     IF c = "thread_id"
       THEN IF c \in DOMAIN email /\ email[c] \notin {Null, Undefined, ""}
              THEN email[c] ELSE ""
       ELSE IF c \in DOMAIN email THEN email[c] ELSE Undefined]

\* a table without its PRIMARY KEY: every well-formed row is accepted
SqlInsertNoKey(tbl, row) ==
  IF \E c \in NotNullColumns : row[c] \in {Null, Undefined}
    THEN [ok |-> FALSE, err |-> "NOT NULL constraint failed", tbl |-> tbl]
    ELSE [ok |-> TRUE, err |-> "", tbl |-> Append(tbl, row)]

\* REPLACE INTO: the row that holds the id is deleted and the new one added
SqlInsertReplace(tbl, row) ==
  IF \E c \in NotNullColumns : row[c] \in {Null, Undefined}
    THEN [ok |-> FALSE, err |-> "NOT NULL constraint failed", tbl |-> tbl]
    ELSE [ok |-> TRUE, err |-> "",
          tbl |-> Append(SelectSeq(tbl, LAMBDA r : r.id # row.id), row)]

\* SELECT COUNT(*) as count FROM emails
countEmails(tbl) == Len(tbl)

\* INSERT INTO emails (...) VALUES (...): the table enforces NOT NULL and
\* the PRIMARY KEY on id
SqlInsert(tbl, row) ==
  IF \E c \in NotNullColumns : row[c] \in {Null, Undefined}
    THEN [ok |-> FALSE, err |-> "NOT NULL constraint failed", tbl |-> tbl]
    ELSE IF SqlExists(tbl, row.id)
      THEN [ok |-> FALSE, err |-> "UNIQUE constraint failed", tbl |-> tbl]
      ELSE [ok |-> TRUE, err |-> "", tbl |-> Append(tbl, row)]

\* storeEmail, first statement: the duplicate check
storeEmailExists(tbl, email) == SqlExists(tbl, email.id)

\* INSERT OR REPLACE: a row with the same id is overwritten
SqlUpsert(tbl, email) ==
  LET row == BoundRow(email) IN
  IF \E c \in NotNullColumns : row[c] \in {Null, Undefined}
    THEN [ok |-> FALSE, err |-> "NOT NULL constraint failed", tbl |-> tbl]
    ELSE [ok |-> TRUE, err |-> "",
          tbl |-> IF SqlExists(tbl, row.id)
                    THEN [i \in 1..Len(tbl) |->
                            IF tbl[i].id = row.id THEN row ELSE tbl[i]]
                    ELSE Append(tbl, row)]

\* stmt.run binds numbers, strings, buffers and null; undefined is refused
Bindable(email) == \A c \in ColumnSet : BoundRow(email)[c] # Undefined

BindError == "SQLite3 can only bind numbers, strings, bigints, buffers, and null"

\* an INSERT that reports success without writing the row
InsertNothing(tbl, email) == [ok |-> TRUE, err |-> "", tbl |-> tbl]

\* storeEmail, second statement: the INSERT (a failure is rethrown as
\* "Email insertion failed: ...")
storeEmailInsert(tbl, email) ==
  IF ~Bindable(email) THEN [ok |-> FALSE, err |-> BindError, tbl |-> tbl]
                      ELSE SqlInsert(tbl, BoundRow(email))

\* history: one more storeEmail call returned true; n counts them (2 stands
\* for several), first is the record the first of them was given
NoRecord == [none |-> TRUE]

NotStored == [n |-> 0, first |-> NoRecord]

Logged(log, email) ==
  [log EXCEPT ![email.id] =
     [n |-> IF @.n < 2 THEN @.n + 1 ELSE @.n,
      first |-> IF @.n = 0 THEN email ELSE @.first]]

(***************************************************************************)
(* webhook-server.js                                                       *)
(***************************************************************************)
REQUIRED_FIELDS == {"id", "thread_id", "received_at", "downloaded_at",
                    "from_address", "subject", "body"}

\* the producer re-posts the first message of the mailbox
PushIds == {String(1)}

Bodies == {"A", "B"}

AllIds == PushIds \cup {String(u) : u \in Uids}

FullPayload(id, body) ==
  [id |-> id, thread_id |-> "T", received_at |-> "r", downloaded_at |-> "d",
   from_address |-> "f", to_address |-> "t", cc_address |-> "c",
   subject |-> "s", labels |-> "[]", body |-> body]

\* a payload in which property f is absent
Without(p, f) == [c \in (DOMAIN p) \ {f} |-> p[c]]

\* the JSON objects the producer posts
Payloads ==
  {FullPayload(id, b) : id \in PushIds, b \in Bodies}
    \cup {Without(FullPayload(id, "A"), "subject") : id \in PushIds}

\* a payload whose labels are the plain text of the sheet, not JSON
PlainLabels(id) == [FullPayload(id, "A") EXCEPT !.labels = "INBOX"]

\* the same, and a payload without a field the validation does not ask for
PushPayloads ==
  Payloads
    \cup {Without(FullPayload(id, "A"), "to_address") : id \in PushIds}
    \cup {PlainLabels(id) : id \in PushIds}

\* the requests that are refused before validation: wrong Content-Type,
\* body over MAX_PAYLOAD_SIZE, body that is not JSON
Rejections == {"INVALID_CONTENT_TYPE", "PAYLOAD_TOO_LARGE", "INVALID_JSON"}

\* validatePayload: the required fields that are absent, null or blank
MissingFields(payload) ==
  {f \in REQUIRED_FIELDS :
     f \notin DOMAIN payload \/ payload[f] \in {Null, Undefined, ""}}

\* a validation that lets every payload through
validateNothing(payload) == [valid |-> TRUE, code |-> ""]

validatePayload(payload) ==
  IF MissingFields(payload) # {}
    THEN [valid |-> FALSE, code |-> "VALIDATION_ERROR"]
    ELSE [valid |-> TRUE, code |-> ""]

\* messageId = payload.id || null
MessageId(payload) ==
  IF "id" \in DOMAIN payload /\ payload.id \notin {Null, Undefined, ""}
    THEN payload.id ELSE Null

Response(payload, status, action) ==
  [id |-> MessageId(payload), payload |-> payload, status |-> status,
   action |-> action]

PushIdle == [pc |-> "idle", payload |-> NoRecord]

NoResponse ==
  [id |-> Null, payload |-> NoRecord, status |-> 0, action |-> ""]

\* a server whose process ends with the request it answered 500
ExitOnServerError(status) ==
  IF status = 500 THEN [pc |-> "exited", payload |-> NoRecord] ELSE PushIdle

\* the request handler returns and the server takes the next request,
\* whatever status it answered
ServeNext(status) == PushIdle

\* the webhook server when it is not observed
NoServer == [pc |-> "none"]

\* res.writeHead, res.end: the request in flight has one more response and
\* its handler returns; after PAYLOAD_TOO_LARGE the rest of the body is
\* still to arrive
Answered(s, code) ==
  IF s = NoServer THEN s
  ELSE [s EXCEPT !.answers = @ + 1, !.inflight = FALSE,
                 !.drain = (code = "PAYLOAD_TOO_LARGE")]

\* handleWebhookPost: the Content-Type check or parseRequestBody refuses
\* the request
PushReject(code) ==
  /\ push.pc = "idle"
  /\ response' = Response(NoRecord, 400, code)
  /\ server' = Answered(server, code)
  /\ UNCHANGED <<emails, mailbox, bad, link, daemon, exitCode, stateFile,
                 runs, push, storeLog, fileVars, migVars, query, producer,
                 shut>>

\* handleWebhookPost up to the duplicate check of storeEmail
PushReceive(p) ==
  /\ push.pc = "idle"
  /\ IF ~validatePayload(p).valid
       THEN /\ response' = Response(p, 400, validatePayload(p).code)
            /\ push' = ServeNext(response'.status)
            /\ server' = Answered(server, validatePayload(p).code)
       ELSE IF storeEmailExists(emails, p)
         THEN /\ response' = Response(p, 200, "skipped")
              /\ push' = ServeNext(response'.status)
              /\ server' = Answered(server, "skipped")
         ELSE /\ push' = [pc |-> "insert", payload |-> p]
              /\ UNCHANGED <<response, server>>
  /\ UNCHANGED <<emails, mailbox, bad, link, daemon, exitCode, stateFile,
                 runs, storeLog, fileVars, migVars, query, producer, shut>>

\* the INSERT of storeEmail, the catch of the UNIQUE error and the response
PushInsert ==
  /\ push.pc = "insert"
  /\ LET r == storeEmailInsert(emails, push.payload) IN
       /\ emails' = r.tbl
       /\ storeLog' = IF r.ok THEN Logged(storeLog, push.payload)
                              ELSE storeLog
       /\ response' =
            IF r.ok THEN Response(push.payload, 200, "stored")
            ELSE IF r.err = "UNIQUE constraint failed"
              THEN Response(push.payload, 200, "skipped")
              ELSE Response(push.payload, 500, "DATABASE_ERROR")
  /\ push' = ServeNext(response'.status)
  /\ server' = Answered(server, response'.action)
  /\ UNCHANGED <<mailbox, bad, link, daemon, exitCode, stateFile, runs,
                 fileVars, migVars, query, producer, shut>>

(***************************************************************************)
(* state-manager.js                                                        *)
(***************************************************************************)
NoFile == [absent |-> TRUE]

Epoch == "1970-01-01T00:00:00.000Z"

Now == "now"

INITIAL_STATE ==
  [last_uid |-> 0, last_uid_received_at |-> Epoch, last_connected_at |-> Epoch,
   last_error |-> Null, connection_status |-> "disconnected"]

RequiredStateFields == {"last_uid", "last_uid_received_at", "last_connected_at",
                        "last_error", "connection_status"}

ValidStatuses == {"connected", "reconnecting", "disconnected"}

\* validateState: TRUE when it does not throw
validateState(state) ==
  /\ RequiredStateFields \subseteq DOMAIN state
  /\ state.last_uid \in Nat
  /\ state.connection_status \in ValidStatuses
  /\ state.last_uid_received_at \notin {Null, Undefined, ""}
  /\ state.last_connected_at \notin {Null, Undefined, ""}

\* a merge of the updates over the defaults instead of the current record
MergeOverDefaults(currentState, updates) ==
  [f \in (DOMAIN INITIAL_STATE) \cup (DOMAIN updates) |->
     IF f \in DOMAIN updates THEN updates[f] ELSE INITIAL_STATE[f]]

\* { ...currentState, ...updates }
Merge(currentState, updates) ==
  [f \in (DOMAIN currentState) \cup (DOMAIN updates) |->
     IF f \in DOMAIN updates THEN updates[f] ELSE currentState[f]]

(***************************************************************************)
(* email-processor.js                                                      *)
(***************************************************************************)
\* fetchEmail: the record built from the fetched message uid
EmailRecord(uid) ==
  [id |-> String(uid), thread_id |-> "", received_at |-> "r",
   downloaded_at |-> Now,
   from_address |-> IF uid \in bad THEN "" ELSE "from",
   to_address |-> IF uid \in bad THEN "" ELSE "to",
   cc_address |-> Null, subject |-> "s", labels |-> "[]", body |-> "M"]

\* the texts that JSON.parse turns into an array
JsonArrays == {"[]", "[\"INBOX\"]"}

\* JSON.parse(labels) does not throw and Array.isArray of the result
IsJsonArray(labels) == labels \in JsonArrays

\* validateEmailRecord: TRUE when it does not throw
validateEmailRecord(email) ==
  /\ email.labels \in {Null, Undefined, ""} \/ IsJsonArray(email.labels)
  /\ email.id \notin {Null, Undefined, ""}
  /\ email.from_address \notin {Null, Undefined, ""}
  /\ email.to_address \notin {Null, Undefined, ""}
  /\ email.received_at \notin {Null, Undefined, ""}
  /\ email.downloaded_at \notin {Null, Undefined, ""}

\* the fields processEmail passes to updateState after a store
ProcessedUpdate(email) ==
  [last_id |-> email.id, last_id_received_at |-> email.downloaded_at,
   last_error |-> Null]

\* a processEmail that records the id of a duplicate as well
RecordDuplicate(state, email) ==
  [f \in (DOMAIN state) \cup {"last_id", "last_id_received_at"} |->
     IF f = "last_id" THEN email.id
     ELSE IF f = "last_id_received_at" THEN email.downloaded_at
     ELSE state[f]]

\* processEmail, if (!stored) return false: the state after a duplicate
SkipDuplicate(state, email) == state

(***************************************************************************)
(* imap-monitor.js: startup, the 'mail' handler, the 'error' and 'end'     *)
(* handlers, shutdown.                                                     *)
(***************************************************************************)
\* the invocations of the 'mail' handler that may overlap
Handlers == {"h1", "h2"}

RunIdle == [pc |-> "idle", uids |-> <<>>, newUids |-> <<>>, res |-> <<>>]

ErrorResults == {"fetch_error", "invalid", "insert_error", "state_error"}

\* the result of imapClient.search(['ALL']): the UIDs of the mailbox
RECURSIVE Ascending(_)
Ascending(S) ==
  IF S = {} THEN <<>>
  ELSE LET m == CHOOSE x \in S : \A y \in S : x <= y
       IN <<m>> \o Ascending(S \ {m})

\* a for-of loop that gives up at the first candidate that failed
LoopNextAbort(newUids, res) ==
  IF Len(res) < Len(newUids)
       /\ (res = <<>> \/ res[Len(res)] \notin ErrorResults)
    THEN "fetch" ELSE "idle"

\* for (const uid of newUids) { try { await processEmail(...) } catch {} }:
\* where the handler stands after the results res
LoopNext(newUids, res) ==
  IF Len(res) < Len(newUids) THEN "fetch" ELSE "idle"

\* the run after processEmail has returned for its current candidate
AfterResult(run, result) ==
  LET res2 == Append(run.res, result)
  IN [run EXCEPT !.res = res2, !.pc = LoopNext(run.newUids, res2)]

\* storeEmail is synchronous: while one handler is between its SELECT and
\* its INSERT no other callback of the daemon runs
Busy(r) == \E q \in Handlers \ {r} : runs[q].pc = "insert"

IdleHandlers == {h \in Handlers : runs[h].pc = "idle"}

\* the invocation a new 'mail' event starts
FreeHandler == IF "h1" \in IdleHandlers THEN "h1" ELSE "h2"

CurrentUid(run) == run.newUids[Len(run.res) + 1]

\* an initState that starts every run from the defaults
initStateReset(file) == INITIAL_STATE

\* initState of initialize(): load the file or create the initial state
initState(file) == IF file = NoFile THEN INITIAL_STATE ELSE file

\* an initState that takes whatever the file holds
neverThrows(file) == FALSE

\* initState throws: the file exists and readState fails on it (it does not
\* parse, or validateState rejects the record)
initStateThrows(file) ==
  /\ file # NoFile
  /\ ~(RequiredStateFields \subseteq DOMAIN file /\ validateState(file))

\* initialize(), imapClient.connect() resolves, startIDLE()
InitializeOk ==
  /\ daemon = "starting"
  /\ ~initStateThrows(stateFile)
  /\ stateFile' = initState(stateFile)
  /\ link' = "up"
  /\ daemon' = "running"
  /\ UNCHANGED <<emails, mailbox, bad, exitCode, runs, push, response,
                 storeLog, fileVars, migVars, extVars>>

\* initialize(), imapClient.connect() rejects: gracefulShutdown(1)
InitializeFail ==
  /\ daemon = "starting"
  /\ ~initStateThrows(stateFile)
  /\ stateFile' = initState(stateFile)
  /\ daemon' = "exited"
  /\ exitCode' = 1
  /\ UNCHANGED <<emails, mailbox, bad, link, runs, push, response,
                 storeLog, fileVars, migVars, extVars>>

\* initialize(), initState throws "State initialization failed":
\* gracefulShutdown(1) before any connection is made
InitializeStateFail ==
  /\ daemon = "starting"
  /\ initStateThrows(stateFile)
  /\ daemon' = "exited"
  /\ exitCode' = 1
  /\ UNCHANGED <<emails, mailbox, bad, link, stateFile, runs, push, response,
                 storeLog, fileVars, migVars, extVars>>

\* a message arrives on the server; over a live connection the server
\* notifies the client, which emits 'mail', and the handler issues its search
NewMail ==
  /\ Cardinality(mailbox) < NumMsgs
  /\ mailbox' = mailbox \cup {Cardinality(mailbox) + 1}
  /\ IF daemon = "running" /\ link = "up"
       THEN /\ IdleHandlers # {}
            /\ ~Busy(FreeHandler)
            /\ runs' = [runs EXCEPT ![FreeHandler] =
                          [RunIdle EXCEPT !.pc = "search"]]
       ELSE UNCHANGED runs
  /\ UNCHANGED <<emails, bad, link, daemon, exitCode, stateFile, push,
                 response, storeLog, fileVars, migVars, extVars>>

\* await imapClient.search(['ALL']) settles
Search(r) ==
  /\ daemon = "running"
  /\ ~Busy(r)
  /\ runs[r].pc = "search"
  /\ runs' = [runs EXCEPT ![r] =
                IF link = "up"
                  THEN [@ EXCEPT !.pc = "filter", !.uids = Ascending(mailbox)]
                  ELSE RunIdle]
  /\ UNCHANGED <<emails, mailbox, bad, link, daemon, exitCode, stateFile,
                 push, response, storeLog, fileVars, migVars, extVars>>

\* the UID of a stored id
UidOf(id) == CHOOSE u \in 0..(NumMsgs + NumHistorical) : String(u) = id

\* a handler that filters with the id processEmail wrote last
LastStoredUid(state) ==
  IF "last_id" \in DOMAIN state THEN UidOf(state.last_id) ELSE state.last_uid

\* const lastUid = state.last_uid
LastUid(state) == state.last_uid

\* readState, uids.filter(uid => uid > lastUid), entry of the loop
Filter(r) ==
  /\ daemon = "running"
  /\ ~Busy(r)
  /\ runs[r].pc = "filter"
  /\ LET lastUid == LastUid(stateFile)
         newUids == SelectSeq(runs[r].uids, LAMBDA u : u > lastUid)
     IN runs' = [runs EXCEPT ![r] =
                   [@ EXCEPT !.uids = <<>>, !.newUids = newUids,
                             !.pc = LoopNext(newUids, <<>>)]]
  /\ UNCHANGED <<emails, mailbox, bad, link, daemon, exitCode, stateFile,
                 push, response, storeLog, fileVars, migVars, extVars>>

\* processEmail: the fetch fails (connection down, or the server refuses)
FetchFail(r) ==
  /\ daemon = "running"
  /\ ~Busy(r)
  /\ runs[r].pc = "fetch"
  /\ runs' = [runs EXCEPT ![r] = AfterResult(@, "fetch_error")]
  /\ UNCHANGED <<emails, mailbox, bad, link, daemon, exitCode, stateFile,
                 push, response, storeLog, fileVars, migVars, extVars>>

\* processEmail: fetch, parse, validateEmailRecord, duplicate check
FetchOk(r) ==
  /\ daemon = "running"
  /\ ~Busy(r)
  /\ runs[r].pc = "fetch"
  /\ link = "up"
  /\ LET email == EmailRecord(CurrentUid(runs[r])) IN
       /\ runs' = [runs EXCEPT ![r] =
                     IF ~validateEmailRecord(email)
                       THEN AfterResult(@, "invalid")
                     ELSE IF storeEmailExists(emails, email)
                       THEN AfterResult(@, "duplicate")
                       ELSE [@ EXCEPT !.pc = "insert"]]
       /\ stateFile' = IF validateEmailRecord(email)
                            /\ storeEmailExists(emails, email)
                         THEN SkipDuplicate(stateFile, email)
                         ELSE stateFile
  /\ UNCHANGED <<emails, mailbox, bad, link, daemon, exitCode, push,
                 response, storeLog, fileVars, migVars, extVars>>

\* processEmail: the INSERT of storeEmail, then updateState
Insert(r) ==
  /\ daemon = "running"
  /\ runs[r].pc = "insert"
  /\ LET email == EmailRecord(CurrentUid(runs[r]))
         ins == storeEmailInsert(emails, email)
         newState == Merge(stateFile, ProcessedUpdate(email))
     IN /\ emails' = ins.tbl
        /\ storeLog' = IF ins.ok THEN Logged(storeLog, email) ELSE storeLog
        /\ stateFile' = IF ins.ok /\ validateState(newState)
                          THEN newState ELSE stateFile
        /\ runs' = [runs EXCEPT ![r] =
                      AfterResult(@, IF ~ins.ok THEN "insert_error"
                                     ELSE IF ~validateState(newState)
                                       THEN "state_error" ELSE "stored")]
  /\ UNCHANGED <<mailbox, bad, link, daemon, exitCode, push, response,
                 fileVars, migVars, extVars>>

\* the connection is lost: 'error' / 'end' are emitted and only logged
Drop ==
  /\ daemon = "running"
  /\ link = "up"
  /\ link' = "down"
  /\ UNCHANGED <<emails, mailbox, bad, daemon, exitCode, stateFile, runs,
                 push, response, storeLog, fileVars, migVars, extVars>>

\* SIGINT / SIGTERM: gracefulShutdown(0)
Shutdown ==
  /\ daemon = "running"
  /\ daemon' = "exited"
  /\ exitCode' = 0
  /\ link' = "closed"
  /\ runs' = [r \in Handlers |-> RunIdle]
  /\ UNCHANGED <<emails, mailbox, bad, stateFile, push, response, storeLog,
                 fileVars, migVars, extVars>>

(***************************************************************************)
(* The ingestion system.                                                   *)
(***************************************************************************)
\* no updateState call is in progress
NoUpdate == [pc |-> "idle"]

\* initDatabase has not been called
NoMigration == [pc |-> "idle", oldCount |-> 0, failedAt |-> ""]

\* a table that does not exist
NoTable == [exists |-> FALSE, rows |-> <<>>]

\* the state file and the schema are at rest
\* no query was made; the webhook server, the producer and the shutdown of
\* the daemon are outside the part of the system that is observed
NoQuery == [pc |-> "none"]

NoProducer == [pc |-> "none"]

NoShutdown == [pc |-> "none"]

ExtInit ==
  /\ query = NoQuery
  /\ server = NoServer
  /\ producer = NoProducer
  /\ shut = NoShutdown

RestInit ==
  /\ ExtInit
  /\ tmpFile = NoFile
  /\ upd = NoUpdate
  /\ layout = "new"
  /\ emailsNew = NoTable
  /\ indexes = {}
  /\ txn = NoRecord
  /\ mig = NoMigration
  /\ before = NoRecord

Init ==
  /\ emails = <<>>
  /\ mailbox = {}
  /\ bad \in {S \in SUBSET Uids : Cardinality(S) <= 1}
  /\ link = "closed"
  /\ daemon = "starting"
  /\ exitCode = -1
  /\ stateFile = NoFile
  /\ runs = [r \in Handlers |-> RunIdle]
  /\ push = PushIdle
  /\ response = NoResponse
  /\ storeLog = [id \in AllIds |-> NotStored]
  /\ RestInit

DaemonStep ==
  \E r \in Handlers : Search(r) \/ Filter(r) \/ FetchFail(r) \/ FetchOk(r) \/ Insert(r)

Next ==
  \/ InitializeOk
  \/ InitializeFail
  \/ NewMail
  \/ DaemonStep
  \/ Drop
  \/ Shutdown
  \/ \E p \in Payloads : PushReceive(p)
  \/ PushInsert

Spec == Init /\ [][Next]_vars

\* the daemon's own steps are scheduled by its event loop
FairSpec == Spec /\ WF_vars(DaemonStep)

(***************************************************************************)
(* The push endpoint with every kind of request, next to a daemon whose    *)
(* 'mail' events do not overlap.                                           *)
(***************************************************************************)
\* a message arrives while no handler is running
MailWhenIdle == NewMail /\ IdleHandlers = Handlers

NextPush ==
  \/ InitializeOk
  \/ MailWhenIdle
  \/ Search("h1")
  \/ Filter("h1")
  \/ FetchFail("h1")
  \/ FetchOk("h1")
  \/ Insert("h1")
  \/ \E p \in PushPayloads : PushReceive(p)
  \/ PushInsert
  \/ \E code \in Rejections : PushReject(code)

SpecPush == Init /\ [][NextPush]_vars

(***************************************************************************)
(* The daemon on a mailbox that already holds messages, with a server that *)
(* answers SEARCH in any order, and gracefulShutdown statement by          *)
(* statement.                                                              *)
(***************************************************************************)
\* the messages of the mailbox at the first start, all of them read
Historical == 1..NumHistorical

\* the orders in which the server may list the UIDs of S
Orders(S) ==
  {o \in [1..Cardinality(S) -> S] :
     \A i, j \in 1..Cardinality(S) : i # j => o[i] # o[j]}

\* await imapClient.search(['ALL']) settles: resolve(uids || []), the UIDs
\* as the server listed them
SearchAnyOrder(r) ==
  /\ daemon = "running"
  /\ ~Busy(r)
  /\ runs[r].pc = "search"
  /\ \E o \in Orders(mailbox) :
       runs' = [runs EXCEPT ![r] =
                  IF link = "up" THEN [@ EXCEPT !.pc = "filter", !.uids = o]
                                 ELSE RunIdle]
  /\ UNCHANGED <<emails, mailbox, bad, link, daemon, exitCode, stateFile,
                 push, response, storeLog, fileVars, migVars, extVars>>

\* a gracefulShutdown that leaves the connection as it is
KeepLink(l) == l

\* imapClient.disconnect(): this.imap.end()
AfterDisconnect(l) == "closed"

\* SIGINT or SIGTERM: gracefulShutdown(0) sets isShuttingDown and
\* disconnects; the statements that follow run in the same turn of the
\* event loop, so no handler runs between them
ShutdownBegin ==
  /\ daemon = "running"
  /\ daemon' = "stopping"
  /\ link' = AfterDisconnect(link)
  /\ UNCHANGED <<emails, mailbox, bad, exitCode, stateFile, runs, push,
                 response, storeLog, fileVars, migVars, extVars>>

\* gracefulShutdown: closeDatabase(db)
ShutdownClose ==
  /\ daemon = "stopping"
  /\ daemon' = "storeClosed"
  /\ UNCHANGED <<emails, mailbox, bad, link, exitCode, stateFile, runs, push,
                 response, storeLog, fileVars, migVars, extVars>>

\* gracefulShutdown: process.exit(exitCode)
ShutdownExit ==
  /\ daemon = "storeClosed"
  /\ daemon' = "exited"
  /\ exitCode' = 0
  /\ UNCHANGED <<emails, mailbox, bad, link, stateFile, runs, push,
                 response, storeLog, fileVars, migVars, extVars>>

InitBatch ==
  /\ emails = <<>>
  /\ mailbox = Historical
  /\ bad \in {S \in SUBSET Uids : Cardinality(S) <= 1}
  /\ link = "closed"
  /\ daemon = "starting"
  /\ exitCode = -1
  /\ stateFile = NoFile
  /\ runs = [r \in Handlers |-> RunIdle]
  /\ push = PushIdle
  /\ response = NoResponse
  /\ storeLog = [id \in AllIds |-> NotStored]
  /\ RestInit

NextBatch ==
  \/ InitializeOk
  \/ MailWhenIdle
  \/ SearchAnyOrder("h1")
  \/ Filter("h1")
  \/ FetchFail("h1")
  \/ FetchOk("h1")
  \/ Insert("h1")
  \/ ShutdownBegin
  \/ ShutdownClose
  \/ ShutdownExit

SpecBatch == InitBatch /\ [][NextBatch]_vars

(***************************************************************************)
(* The producer (Apps Script): broadcastMessages and broadcastWithRetry.   *)
(***************************************************************************)
MAX_RETRIES == 3

\* what UrlFetchApp.fetch gives: a response code, or -1 for an exception
FetchOutcomes == {200, 400, 500, -1}

\* responseCode >= 200 && responseCode < 300
IsSuccess(code) == code >= 200 /\ code < 300

\* the sheets the script can find: per data row, whether broadcasted_at is
\* set
Sheets == UNION {[1..n -> BOOLEAN] : n \in 0..NumRows}

\* no run of broadcastMessages yet, on sheet sh
ProducerIdle(sh) ==
  [pc |-> "idle", sheet |-> sh, data |-> <<>>, i |-> 0, attempt |-> 0,
   log |-> <<>>]

\* a run that goes on with the next row after a row failed every attempt
SkipFailedRow(p) == [p EXCEPT !.pc = "row", !.i = @ + 1]

\* broadcastWithRetry returned false: toast, return (halt)
Exhausted(p) == [p EXCEPT !.pc = "halted"]

\* broadcastMessages is started: getLastRow, getValues
BroadcastStart ==
  /\ producer.pc \in {"idle", "done", "halted"}
  /\ producer' = [producer EXCEPT
                    !.pc = IF Len(producer.sheet) = 0 THEN "done" ELSE "row",
                    !.data = producer.sheet, !.i = 1, !.attempt = 0,
                    !.log = <<>>]
  /\ UNCHANGED <<ingestVars, fileVars, migVars, query, server, shut>>

\* the head of the for loop: the end of the data, a row that is already
\* broadcasted (continue), or a row to send
BroadcastRow ==
  /\ producer.pc = "row"
  /\ producer' =
       IF producer.i > Len(producer.data)
         THEN [producer EXCEPT !.pc = "done"]
       ELSE IF producer.data[producer.i]
         THEN [producer EXCEPT !.i = @ + 1]
         ELSE [producer EXCEPT !.pc = "send", !.attempt = 1]
  /\ UNCHANGED <<ingestVars, fileVars, migVars, query, server, shut>>

\* one attempt of broadcastWithRetry; on success broadcastMessages sets
\* broadcasted_at of the row, after the last failed attempt it halts
BroadcastAttempt(code) ==
  /\ producer.pc = "send"
  /\ LET sent == [producer EXCEPT
                    !.log = Append(@, [row |-> producer.i, code |-> code])]
     IN producer' =
          IF IsSuccess(code)
            THEN [sent EXCEPT !.sheet[producer.i] = TRUE, !.i = @ + 1,
                              !.pc = "row"]
          ELSE IF producer.attempt < MAX_RETRIES
            THEN [sent EXCEPT !.attempt = @ + 1]
            ELSE Exhausted(sent)
  /\ UNCHANGED <<ingestVars, fileVars, migVars, query, server, shut>>

InitProducer ==
  /\ emails = <<>>
  /\ mailbox = {}
  /\ bad = {}
  /\ link = "closed"
  /\ daemon = "starting"
  /\ exitCode = -1
  /\ stateFile = NoFile
  /\ runs = [r \in Handlers |-> RunIdle]
  /\ push = PushIdle
  /\ response = NoResponse
  /\ storeLog = [id \in AllIds |-> NotStored]
  /\ tmpFile = NoFile
  /\ upd = NoUpdate
  /\ layout = "new"
  /\ emailsNew = NoTable
  /\ indexes = {}
  /\ txn = NoRecord
  /\ mig = NoMigration
  /\ before = NoRecord
  /\ query = NoQuery
  /\ server = NoServer
  /\ \E sh \in Sheets : producer = ProducerIdle(sh)
  /\ shut = NoShutdown

NextProducer ==
  \/ BroadcastStart
  \/ BroadcastRow
  \/ \E code \in FetchOutcomes : BroadcastAttempt(code)

SpecProducer == InitProducer /\ [][NextProducer]_vars

(***************************************************************************)
(* imap-monitor.js: the triggers of gracefulShutdown.                      *)
(***************************************************************************)
\* the exit code each trigger passes to gracefulShutdown
TriggerCode ==
  [SIGINT |-> 0, SIGTERM |-> 0, uncaughtException |-> 1,
   unhandledRejection |-> 1, initFailed |-> 1]

Triggers == DOMAIN TriggerCode

\* isShuttingDown = false, nothing disconnected or closed yet
NotShuttingDown ==
  [pc |-> "none", isShuttingDown |-> FALSE, code |-> -1, kinds |-> <<>>,
   disconnects |-> 0, closes |-> 0]

\* a gracefulShutdown without its first line: every call runs the sequence
UnguardedEntry(s, kind) ==
  [s EXCEPT !.isShuttingDown = TRUE, !.code = TriggerCode[kind],
            !.kinds = Append(@, kind), !.pc = "disconnect"]

\* gracefulShutdown(exitCode): if (isShuttingDown) return;
\* isShuttingDown = true
GuardedEntry(s, kind) ==
  IF s.isShuttingDown
    THEN [s EXCEPT !.kinds = Append(@, kind)]
    ELSE [s EXCEPT !.isShuttingDown = TRUE, !.code = TriggerCode[kind],
                   !.kinds = Append(@, kind), !.pc = "disconnect"]

\* a signal, an uncaught exception, an unhandled rejection or the catch of
\* initialize() calls gracefulShutdown. The call runs to process.exit in
\* one turn of the event loop; a trigger is let in between its statements
\* all the same, where it meets the guard
Trigger(kind) ==
  /\ daemon # "exited"
  /\ Len(shut.kinds) < MaxTriggers
  /\ kind = "initFailed" => daemon = "starting"
  /\ shut' = GuardedEntry(shut, kind)
  /\ daemon' = IF daemon \in {"starting", "running"} THEN "stopping"
                                                      ELSE daemon
  /\ UNCHANGED <<emails, mailbox, bad, link, exitCode, stateFile, runs, push,
                 response, storeLog, fileVars, migVars, query, server,
                 producer>>

\* gracefulShutdown: imapClient.disconnect()
GracefulDisconnect ==
  /\ daemon # "exited"
  /\ shut.pc = "disconnect"
  /\ link' = AfterDisconnect(link)
  /\ shut' = [shut EXCEPT !.pc = "close", !.disconnects = @ + 1]
  /\ UNCHANGED <<emails, mailbox, bad, daemon, exitCode, stateFile, runs,
                 push, response, storeLog, fileVars, migVars, query, server,
                 producer>>

\* gracefulShutdown: closeDatabase(db)
GracefulClose ==
  /\ daemon # "exited"
  /\ shut.pc = "close"
  /\ shut' = [shut EXCEPT !.pc = "exit", !.closes = @ + 1]
  /\ daemon' = "storeClosed"
  /\ UNCHANGED <<emails, mailbox, bad, link, exitCode, stateFile, runs, push,
                 response, storeLog, fileVars, migVars, query, server,
                 producer>>

\* gracefulShutdown: process.exit(exitCode)
GracefulExit ==
  /\ daemon # "exited"
  /\ shut.pc = "exit"
  /\ shut' = [shut EXCEPT !.pc = "done"]
  /\ daemon' = "exited"
  /\ exitCode' = shut.code
  /\ UNCHANGED <<emails, mailbox, bad, link, stateFile, runs, push, response,
                 storeLog, fileVars, migVars, query, server, producer>>

InitShutdown ==
  /\ emails = <<>>
  /\ mailbox = {}
  /\ bad = {}
  /\ link = "closed"
  /\ daemon = "starting"
  /\ exitCode = -1
  /\ stateFile = NoFile
  /\ runs = [r \in Handlers |-> RunIdle]
  /\ push = PushIdle
  /\ response = NoResponse
  /\ storeLog = [id \in AllIds |-> NotStored]
  /\ tmpFile = NoFile
  /\ upd = NoUpdate
  /\ layout = "new"
  /\ emailsNew = NoTable
  /\ indexes = {}
  /\ txn = NoRecord
  /\ mig = NoMigration
  /\ before = NoRecord
  /\ query = NoQuery
  /\ server = NoServer
  /\ producer = NoProducer
  /\ shut = NotShuttingDown

NextShutdown ==
  \/ InitializeOk
  \/ MailWhenIdle
  \/ Search("h1")
  \/ Filter("h1")
  \/ FetchFail("h1")
  \/ FetchOk("h1")
  \/ Insert("h1")
  \/ \E kind \in Triggers : Trigger(kind)
  \/ GracefulDisconnect
  \/ GracefulClose
  \/ GracefulExit

SpecShutdown == InitShutdown /\ [][NextShutdown]_vars

(***************************************************************************)
(* webhook-server.js: the process of the server, from listen to exit.      *)
(***************************************************************************)
\* JSON.parse gave null: payload.id throws inside the try of the parse, the
\* catch answers 400 with the code of the TypeError, which has none
NotAnObject == Undefined

ServerRejections == Rejections \cup {NotAnObject}

\* JSON.parse gave a number, a string or an array: no field of
\* REQUIRED_FIELDS is an own property of it
JsonScalar == [value |-> "5"]

ServerPayloads == PushPayloads \cup {JsonScalar}

\* a promise whose every reject and resolve runs the handlers again
AnswerAgain(answers) == answers + 1

\* parseRequestBody: resolve or reject on a promise that is settled does
\* nothing, the catch of the handler is not run again
AfterSettled(answers) == answers

\* server.listen: no request yet, the database is open
Listening ==
  [pc |-> "listening", dbOpen |-> TRUE, exitCode |-> -1, inflight |-> FALSE,
   drain |-> FALSE, requests |-> 0, answers |-> 0]

ServerAlive == server.pc \in {"listening", "closing"}

\* a POST /webhook arrives: the handler runs up to await parseRequestBody
ServerAccept ==
  /\ server.pc = "listening"
  /\ ~server.inflight
  /\ ~server.drain
  /\ server.requests < MaxRequests
  /\ server' = [server EXCEPT !.inflight = TRUE, !.requests = @ + 1]
  /\ UNCHANGED <<ingestVars, fileVars, migVars, query, producer, shut>>

\* the request in flight is refused for its Content-Type, size or JSON
ServerReject(code) ==
  /\ ServerAlive
  /\ server.inflight
  /\ PushReject(code)

\* the body of the request in flight has arrived and parses
ServerReceive(p) ==
  /\ ServerAlive
  /\ server.inflight
  /\ PushReceive(p)

ServerInsert ==
  /\ ServerAlive
  /\ PushInsert

\* req 'end' of a request that was answered PAYLOAD_TOO_LARGE: JSON.parse of
\* what was read, then resolve or reject on the settled promise
BodyEnd ==
  /\ ServerAlive
  /\ server.drain
  /\ server' = [server EXCEPT !.drain = FALSE,
                              !.answers = AfterSettled(@)]
  /\ UNCHANGED <<ingestVars, fileVars, migVars, query, producer, shut>>

\* SIGTERM or SIGINT: shutdown() calls server.close and arms the timer
ServerSignal ==
  /\ server.pc = "listening"
  /\ server' = [server EXCEPT !.pc = "closing"]
  /\ UNCHANGED <<ingestVars, fileVars, migVars, query, producer, shut>>

\* the callback of server.close: every connection has ended; db.close(),
\* process.exit(0)
ServerClosed ==
  /\ server.pc = "closing"
  /\ ~server.inflight
  /\ ~server.drain
  /\ server' = [server EXCEPT !.pc = "exited", !.dbOpen = FALSE,
                              !.exitCode = 0]
  /\ UNCHANGED <<ingestVars, fileVars, migVars, query, producer, shut>>

\* the callback of setTimeout(..., 5000): db.close(), process.exit(1)
ServerTimeout ==
  /\ server.pc = "closing"
  /\ server.inflight \/ server.drain
  /\ server' = [server EXCEPT !.pc = "exited", !.dbOpen = FALSE,
                              !.exitCode = 1]
  /\ UNCHANGED <<ingestVars, fileVars, migVars, query, producer, shut>>

InitServer ==
  /\ emails = <<>>
  /\ mailbox = {}
  /\ bad = {}
  /\ link = "closed"
  /\ daemon = "starting"
  /\ exitCode = -1
  /\ stateFile = NoFile
  /\ runs = [r \in Handlers |-> RunIdle]
  /\ push = PushIdle
  /\ response = NoResponse
  /\ storeLog = [id \in AllIds |-> NotStored]
  /\ tmpFile = NoFile
  /\ upd = NoUpdate
  /\ layout = "new"
  /\ emailsNew = NoTable
  /\ indexes = {}
  /\ txn = NoRecord
  /\ mig = NoMigration
  /\ before = NoRecord
  /\ query = NoQuery
  /\ server = Listening
  /\ producer = NoProducer
  /\ shut = NoShutdown

NextServer ==
  \/ ServerAccept
  \/ \E code \in ServerRejections : ServerReject(code)
  \/ \E p \in ServerPayloads : ServerReceive(p)
  \/ ServerInsert
  \/ BodyEnd
  \/ ServerSignal
  \/ ServerClosed
  \/ ServerTimeout

SpecServer == InitServer /\ [][NextServer]_vars

(***************************************************************************)
(* database.js: getEmailsByThread over the tables storeEmail can build.    *)
(***************************************************************************)
\* received_at texts of one format, listed in the order of the BINARY
\* collation of SQLite
Times == <<"2025-01-01T09:00:00.000Z", "2025-01-01T10:00:00.000Z",
           "2025-01-01T11:00:00.000Z">>

TimeSet == {Times[i] : i \in 1..Len(Times)}

\* a <= b as ORDER BY compares two TEXT values
TextLeq(a, b) ==
  \E i, j \in 1..Len(Times) : Times[i] = a /\ Times[j] = b /\ i <= j

\* thread ids of stored messages; "" is what storeEmail binds for a message
\* without one
Threads == {"", "T1"}

\* the arguments of the query: the empty id, a stored one, one never stored
ThreadArgs == {"", "T1", "T2"}

\* the record of a message of thread th received at t
ThreadEmail(id, th, t) ==
  [id |-> id, thread_id |-> th, received_at |-> t, downloaded_at |-> "d",
   from_address |-> "f", to_address |-> "t", cc_address |-> Null,
   subject |-> "s", labels |-> "[]", body |-> "B"]

\* WHERE thread_id = ?: the rows of the thread in the order of their rowid,
\* without the ORDER BY and without the exclusion of the empty id
SelectThreadByRowid(tbl, threadId) ==
  {SelectSeq(tbl, LAMBDA r : r.thread_id = threadId)}

\* the positions of the rows that WHERE thread_id = ? AND thread_id != ''
\* keeps
ThreadMatches(tbl, threadId) ==
  {i \in 1..Len(tbl) : tbl[i].thread_id = threadId /\ tbl[i].thread_id # ""}

\* getEmailsByThread: the sequences stmt.all(threadId) may return; ORDER BY
\* received_at leaves the order of rows with equal received_at open
getEmailsByThread(tbl, threadId) ==
  {[k \in 1..Cardinality(ThreadMatches(tbl, threadId)) |-> tbl[o[k]]] :
     o \in {p \in Orders(ThreadMatches(tbl, threadId)) :
              \A a, b \in DOMAIN p :
                a < b => TextLeq(tbl[p[a]].received_at,
                                 tbl[p[b]].received_at)}}

\* storeEmail of one more message; the result of an earlier query is dropped
StoreInThread(th, t) ==
  /\ Len(emails) < MaxQueryRows
  /\ LET email == ThreadEmail(String(Len(emails) + 1), th, t) IN
       /\ ~storeEmailExists(emails, email)
       /\ emails' = storeEmailInsert(emails, email).tbl
  /\ query' = NoQuery
  /\ UNCHANGED <<mailbox, bad, link, daemon, exitCode, stateFile, runs, push,
                 response, storeLog, fileVars, migVars, server, producer,
                 shut>>

\* a call of getEmailsByThread(db, threadId)
QueryThread(threadId) ==
  /\ \E rows \in getEmailsByThread(emails, threadId) :
       query' = [pc |-> "returned", threadId |-> threadId, tbl |-> emails,
                 rows |-> rows]
  /\ UNCHANGED <<ingestVars, fileVars, migVars, server, producer, shut>>

NextQuery ==
  \/ \E th \in Threads, t \in TimeSet : StoreInThread(th, t)
  \/ \E threadId \in ThreadArgs : QueryThread(threadId)

InitQuery ==
  /\ emails = <<>>
  /\ mailbox = {}
  /\ bad = {}
  /\ link = "closed"
  /\ daemon = "starting"
  /\ exitCode = -1
  /\ stateFile = NoFile
  /\ runs = [r \in Handlers |-> RunIdle]
  /\ push = PushIdle
  /\ response = NoResponse
  /\ storeLog = [id \in AllIds |-> NotStored]
  /\ RestInit

SpecQuery == InitQuery /\ [][NextQuery]_vars

(***************************************************************************)
(* research.md, ReconnectionManager: the documented backoff schedule.      *)
(***************************************************************************)
delays == <<1000, 2000, 4000, 8000>>

maxDelay == 60000

\* getNextDelay with this.currentAttempt = currentAttempt (0-based)
getNextDelay(currentAttempt) ==
  IF currentAttempt + 1 <= Len(delays) THEN delays[currentAttempt + 1]
                                       ELSE maxDelay

\* the reconnect attempts the 'error' and 'end' handlers of the daemon have
\* scheduled: they only log
ScheduledReconnects == {}

(***************************************************************************)
(* Properties of the store under both writers.                             *)
(***************************************************************************)
RowCount(id) == Cardinality(RowsWithId(emails, id))

TheRow(id) == emails[CHOOSE i \in RowsWithId(emails, id) : TRUE]

\* the (handler, position) pairs of the current batches with result k
Results(k) ==
  {<<h, i>> \in Handlers \X (1..NumMsgs) :
     i <= Len(runs[h].res) /\ runs[h].res[i] = k}

\* C1: the store never holds two rows with one id; storeEmail returns true
\* exactly once per stored id (the call that wrote the row), and it answers
\* duplicate (false), on either path, only when the row is already there.
C1_OneRowPerId ==
  /\ \A id \in AllIds :
       RowCount(id) <= 1 /\ storeLog[id].n = RowCount(id)
  /\ \A x \in Results("duplicate") :
       RowCount(String(runs[x[1]].newUids[x[2]])) = 1
  /\ (response.status = 200 /\ response.action = "skipped")
       => RowCount(response.id) = 1

\* both paths were answered duplicate for the id that was stored once
C1_Witness ==
  /\ storeLog[String(1)].n = 1
  /\ response.action = "skipped"
  /\ \E x \in Results("duplicate") : runs[x[1]].newUids[x[2]] = 1

\* C2: when both writers passed the duplicate check for one id before either
\* wrote, one ends stored and the other duplicate, none with an error.
C2_RaceLoserIsDuplicate ==
  /\ Results("insert_error") = {}
  /\ response.status = 500 => ~Bindable(response.payload)

\* C3: a row keeps every field of the payload of the call that stored it;
\* a valid push is answered 200, with action stored only for the call that
\* wrote the row and with action skipped only when the row exists, so a
\* second push of the id leaves body A in place.
C3_DuplicatePushKeepsFirst ==
  /\ \A id \in AllIds :
       storeLog[id].n >= 1 =>
         RowCount(id) = 1 /\ TheRow(id) = BoundRow(storeLog[id].first)
  /\ response.status # 0 =>
       /\ (validatePayload(response.payload).valid
             /\ Bindable(response.payload)) => response.status = 200
       /\ response.action = "stored" =>
            storeLog[response.id].first = response.payload
       /\ response.action = "skipped" => RowCount(response.id) = 1

\* the push of body A was stored and a later push of body B was skipped
C3_Witness ==
  /\ response.status = 200
  /\ response.action = "skipped"
  /\ response.payload.body = "B"
  /\ storeLog[response.id].first = FullPayload(response.id, "A")
  /\ TheRow(response.id).body = "A"

(***************************************************************************)
(* Properties of the mailbox path.                                         *)
(***************************************************************************)
\* the messages of the mailbox that pass validation
ValidUids == mailbox \ bad

AllPresentOnce == \A u \in ValidUids : RowCount(String(u)) = 1

\* the connection is down, a handler has stored message k of its batch and
\* has not yet fetched the valid message k+1
DropMidBatch ==
  /\ daemon = "running"
  /\ link = "down"
  /\ \E h \in Handlers :
       /\ runs[h].pc = "fetch"
       /\ Len(runs[h].res) >= 1
       /\ runs[h].res[Len(runs[h].res)] = "stored"
       /\ CurrentUid(runs[h]) \in ValidUids
       /\ RowCount(String(CurrentUid(runs[h]))) = 0

\* C4: after a drop between the store of message k and the fetch of message
\* k+1 the daemon reconnects and resyncs, so that every message of the
\* mailbox ends up in the store exactly once (unless the daemon is stopped).
C4_NoLossAcrossReconnect ==
  [](DropMidBatch => <>(AllPresentOnce \/ daemon = "exited"))

\* C5: while the daemon runs with its connection lost, the persisted phase
\* is reconnecting.
C5_DropSetsReconnecting ==
  (daemon = "running" /\ link = "down")
    => stateFile.connection_status = "reconnecting"

\* C6: after a drop the first reconnect attempt is scheduled after 1s (and
\* the n-th after the n-th delay of the schedule 1s, 2s, 4s, 8s, 60s, ...).
C6_BackoffSchedule ==
  (daemon = "running" /\ link = "down")
    => getNextDelay(0) \in ScheduledReconnects

\* C7: a handler that has finished its batch has processed every candidate
\* of it, whatever failed before; the candidates that did not fail are in
\* the store.
C7_SkipAndContinue ==
  \A h \in Handlers :
    runs[h].pc = "idle" =>
      /\ Len(runs[h].res) = Len(runs[h].newUids)
      /\ \A i \in 1..Len(runs[h].res) :
           runs[h].res[i] \notin ErrorResults
             => RowCount(String(runs[h].newUids[i])) = 1

\* a finished batch in which a candidate failed and a later one was stored
C7_Witness ==
  \E h \in Handlers :
    /\ runs[h].pc = "idle"
    /\ \E i, j \in 1..Len(runs[h].res) :
         i < j /\ runs[h].res[i] \in ErrorResults /\ runs[h].res[j] = "stored"


(***************************************************************************)
(* state-manager.js: updateState and writeStateAtomic statement by         *)
(* statement, with the process killed between or inside the system calls.  *)
(***************************************************************************)
\* what a file holds after a write that was cut short
Truncated == [truncated |-> TRUE]

\* readState does not throw: the file exists, parses and validates
Readable(file) ==
  /\ file # NoFile
  /\ file # Truncated
  /\ validateState(file)

\* the partial updates the callers pass: processEmail after a store,
\* clearError, an error report, a phase change, a position change, and two
\* that validateState rejects
StateUpdates ==
  {ProcessedUpdate(EmailRecord(u)) : u \in Uids}
    \cup {[last_error |-> Null], [last_error |-> "e"]}
    \cup {[connection_status |-> s, last_connected_at |-> Now] :
             s \in ValidStatuses}
    \cup {[last_uid |-> u, last_uid_received_at |-> "r"] : u \in Uids}
    \cup {[connection_status |-> "bogus"], [last_uid |-> -1]}

\* a write that overwrites the state file itself
writeFileInPlace(real, tmp, content) == [real |-> content, tmp |-> tmp]

\* writeFileSync(tempPath, json, 'utf8'): the two files afterwards
writeFileSync(real, tmp, content) == [real |-> real, tmp |-> content]

\* renameSync(tempPath, stateFilePath): atomic replacement
renameSync(real, tmp) == [real |-> tmp, tmp |-> NoFile]

\* the catch of writeStateAtomic: if (existsSync(tempPath)) unlinkSync
unlinkTemp(real, tmp) == [real |-> real, tmp |-> NoFile]

UpdRunning == upd.pc \in {"write", "rename"}

\* an updateState that validates only what it read
validatesCurrentOnly(currentState, newState) == Readable(currentState)

\* updateState goes on to writeStateAtomic: readState and
\* validateState(newState) did not throw
updateStateValidates(currentState, newState) ==
  Readable(currentState) /\ validateState(newState)

\* updateState: readState, the merge, validateState
UpdateBegin(updates) ==
  /\ daemon = "running"
  /\ upd.pc \in {"idle", "returned", "thrown"}
  /\ LET newState == Merge(stateFile, updates) IN
       upd' = [pc |-> IF updateStateValidates(stateFile, newState)
                        THEN "write" ELSE "thrown",
               old |-> stateFile, new |-> newState, at |-> "",
               updates |-> updates]
  /\ UNCHANGED <<ingestVars, tmpFile, migVars, extVars>>

\* writeStateAtomic: writeFileSync returns
UpdateWrite ==
  /\ upd.pc = "write"
  /\ LET files == writeFileSync(stateFile, tmpFile, upd.new) IN
       /\ stateFile' = files.real
       /\ tmpFile' = files.tmp
  /\ upd' = [upd EXCEPT !.pc = "rename"]
  /\ UNCHANGED <<emails, mailbox, bad, link, daemon, exitCode, runs, push,
                 response, storeLog, migVars, extVars>>

\* writeStateAtomic: renameSync returns, updateState returns newState
UpdateRename ==
  /\ upd.pc = "rename"
  /\ tmpFile # NoFile
  /\ LET files == renameSync(stateFile, tmpFile) IN
       /\ stateFile' = files.real
       /\ tmpFile' = files.tmp
  /\ upd' = [upd EXCEPT !.pc = "returned"]
  /\ UNCHANGED <<emails, mailbox, bad, link, daemon, exitCode, runs, push,
                 response, storeLog, migVars, extVars>>

\* writeFileSync or renameSync throws (no space, no permission, no temp
\* file): the catch removes the temp file and updateState throws
UpdateThrow ==
  /\ UpdRunning
  /\ LET written == IF upd.pc = "write"
                      THEN writeFileSync(stateFile, tmpFile, Truncated)
                      ELSE [real |-> stateFile, tmp |-> tmpFile]
         files == unlinkTemp(written.real, written.tmp)
     IN /\ stateFile' = files.real
        /\ tmpFile' = files.tmp
  /\ upd' = [upd EXCEPT !.pc = "thrown"]
  /\ UNCHANGED <<emails, mailbox, bad, link, daemon, exitCode, runs, push,
                 response, storeLog, migVars, extVars>>

\* the process is killed inside updateState: before the write, in the
\* middle of it, or between the write and the rename
Crash ==
  /\ UpdRunning
  /\ \E cut \in BOOLEAN :
       LET files == IF upd.pc = "write" /\ cut
                      THEN writeFileSync(stateFile, tmpFile, Truncated)
                      ELSE [real |-> stateFile, tmp |-> tmpFile]
       IN /\ stateFile' = files.real
          /\ tmpFile' = files.tmp
  /\ upd' = [upd EXCEPT !.pc = "crashed", !.at = upd.pc]
  /\ UNCHANGED <<emails, mailbox, bad, link, daemon, exitCode, runs, push,
                 response, storeLog, migVars, extVars>>

\* the daemon is started again: initState loads the existing file
Restart ==
  /\ upd.pc = "crashed"
  /\ upd' = IF Readable(initState(stateFile))
              THEN NoUpdate ELSE [upd EXCEPT !.pc = "unreadable"]
  /\ UNCHANGED <<ingestVars, tmpFile, migVars, extVars>>

\* the record a previous run has left
PreviousState ==
  [INITIAL_STATE EXCEPT !.last_uid = 1, !.last_uid_received_at = "r",
                        !.last_connected_at = "then",
                        !.connection_status = "connected"]

\* files that readState refuses: not JSON, a required field missing, a
\* negative position, a phase outside the enum
CorruptFiles ==
  {Truncated,
   [f \in RequiredStateFields \ {"last_error"} |-> PreviousState[f]],
   [PreviousState EXCEPT !.last_uid = -1],
   [PreviousState EXCEPT !.connection_status = "bogus"]}

\* what the state path holds when the daemon is started
StartFiles == {NoFile, PreviousState} \cup CorruptFiles

InitState ==
  /\ emails = <<>>
  /\ mailbox = {}
  /\ bad = {}
  /\ link = "closed"
  /\ daemon = "starting"
  /\ exitCode = -1
  /\ stateFile \in StartFiles
  /\ runs = [r \in Handlers |-> RunIdle]
  /\ push = PushIdle
  /\ response = NoResponse
  /\ storeLog = [id \in AllIds |-> NotStored]
  /\ RestInit

NextState ==
  \/ InitializeOk
  \/ InitializeStateFail
  \/ \E updates \in StateUpdates : UpdateBegin(updates)
  \/ UpdateWrite
  \/ UpdateRename
  \/ UpdateThrow
  \/ Crash
  \/ Restart

SpecState == InitState /\ [][NextState]_vars

\* C8: whenever the process dies or throws inside a State update, and at
\* every other point of it, the state file at its real path is readable and
\* valid and holds the complete old record or the complete new record; a
\* crash between the write of the temp file and the rename leaves the old one.
C8_CrashLeavesOldOrNew ==
  /\ daemon = "running" => Readable(stateFile)
  /\ upd.pc # "idle" =>
       /\ stateFile \in {upd.old, upd.new}
       /\ upd.pc \in {"write", "rename", "thrown", "crashed"}
            => stateFile = upd.old
       /\ upd.pc = "returned" => stateFile = upd.new

\* killed after the temp file was written and before the rename, in an
\* update that changes two fields
C8_Witness ==
  /\ upd.pc = "crashed"
  /\ upd.at = "rename"
  /\ tmpFile = upd.new
  /\ stateFile = upd.old
  /\ upd.new.connection_status # upd.old.connection_status
  /\ upd.new.last_connected_at # upd.old.last_connected_at


\* the daemon leaves its startup
Started == daemon = "starting" /\ daemon' # "starting"

C21_UpdateChangesNamedFields ==
  upd.pc \in {"write", "rename", "returned"} =>
    /\ upd.pc = "returned" => stateFile = upd.new
    /\ DOMAIN upd.new = (DOMAIN upd.old) \cup (DOMAIN upd.updates)
    /\ \A f \in DOMAIN upd.updates : upd.new[f] = upd.updates[f]
    /\ \A f \in (DOMAIN upd.old) \ (DOMAIN upd.updates) :
         upd.new[f] = upd.old[f]

\* an update of the phase has returned on a record that a store had changed
C21_Witness ==
  /\ upd.pc = "returned"
  /\ DOMAIN upd.updates = {"connection_status", "last_connected_at"}
  /\ upd.old.connection_status # upd.new.connection_status
  /\ "last_id" \in DOMAIN upd.old
  /\ upd.old.last_error # Null

OldColumns == <<"id", "from_address", "to_address", "cc_address", "subject",
                "body", "received_at", "labels", "downloaded_at">>

OldIndexes == {"idx_received_at", "idx_from_address"}

NewIndexes == {"idx_downloaded_at", "idx_from_address", "idx_thread_id"}

\* a row of the old layout: INTEGER id, every column but cc_address NOT NULL
OldRow(id, cc, body) ==
  [id |-> id, from_address |-> "from", to_address |-> "to", cc_address |-> cc,
   subject |-> "s", body |-> body, received_at |-> "r", labels |-> "[]",
   downloaded_at |-> "d"]

\* the old-layout tables over the ids S, in rowid (= id) order
RECURSIVE OldTables(_)
OldTables(S) ==
  IF S = {} THEN {<<>>}
  ELSE LET m == CHOOSE x \in S : \A y \in S : y <= x
       IN {Append(t, OldRow(m, cc, b)) :
             t \in OldTables(S \ {m}), cc \in {Null, "c"}, b \in {"x", "y"}}

\* CAST(id AS TEXT)
CastAsText(n) == ToString(n)

\* a SELECT * with '' put in for thread_id: the columns in the old order
SelectStar(o) ==
  <<CastAsText(o.id), "", o.from_address, o.to_address, o.cc_address,
    o.subject, o.body, o.received_at, o.labels, o.downloaded_at>>

\* SELECT CAST(id AS TEXT) as id, '' as thread_id, received_at, ... FROM
\* emails: the result columns of one row, in order
SelectList(o) ==
  <<CastAsText(o.id), "", o.received_at, o.downloaded_at, o.from_address,
    o.to_address, o.cc_address, o.subject, o.labels, o.body>>

\* INSERT INTO emails_new SELECT ...: the values are bound to the columns
\* of emails_new by position
BindByPosition(values) ==
  [c \in ColumnSet |->
     values[CHOOSE i \in 1..Len(Columns) : Columns[i] = c]]

\* the INSERT ... SELECT over the rows of the old table
RECURSIVE CopyRows(_, _)
CopyRows(old, tbl) ==
  IF old = <<>> THEN [ok |-> TRUE, tbl |-> tbl]
  ELSE LET ins == SqlInsert(tbl, BindByPosition(SelectList(Head(old))))
       IN IF ins.ok THEN CopyRows(Tail(old), ins.tbl)
                    ELSE [ok |-> FALSE, tbl |-> tbl]

\* the schema and the rows of the database file
Database ==
  [layout |-> layout, emails |-> emails, emailsNew |-> emailsNew,
   indexes |-> indexes]

\* the layouts a database file may have: no table emails; the first layout
\* (uid, original_date); the old layout; the current layout; the current
\* columns with an INTEGER id
Layouts == {"none", "uid", "old", "new", "mixed"}

\* the columns of table emails in the first layout
UidColumns == {"uid", "from_address", "to_address", "cc_address", "subject",
               "body", "original_date", "labels", "received_at"}

\* PRAGMA table_info(emails): the column names
TableColumns(l) ==
  CASE l = "none" -> {}
    [] l = "uid" -> UidColumns
    [] l = "old" -> {OldColumns[i] : i \in 1..Len(OldColumns)}
    [] l \in {"new", "mixed"} -> ColumnSet

\* PRAGMA table_info(emails): the declared type of column id
IdType(l) == IF l \in {"old", "mixed"} THEN "INTEGER" ELSE "TEXT"

\* needsMigration: table emails exists, id is INTEGER, no thread_id; an
\* error of the inspection is caught and answered false
needsMigrationOf(l, inspectionFails) ==
  IF inspectionFails THEN FALSE
  ELSE IF l = "none" THEN FALSE
  ELSE "id" \in TableColumns(l) /\ IdType(l) = "INTEGER"
         /\ "thread_id" \notin TableColumns(l)

needsMigration == needsMigrationOf(layout, FALSE)

\* the column each index of initDatabase is created on
IndexColumn(ix) ==
  CASE ix = "idx_downloaded_at" -> "downloaded_at"
    [] ix = "idx_from_address" -> "from_address"
    [] ix = "idx_thread_id" -> "thread_id"

EnsureIndexes == <<"idx_downloaded_at", "idx_from_address", "idx_thread_id">>

\* the CREATE INDEX IF NOT EXISTS statements from the k-th on, over the
\* columns cols: an existing name is skipped, a missing column throws
RECURSIVE CreateIndexes(_, _, _)
CreateIndexes(k, cols, ixs) ==
  IF k > Len(EnsureIndexes) THEN [ok |-> TRUE, indexes |-> ixs]
  ELSE IF EnsureIndexes[k] \in ixs THEN CreateIndexes(k + 1, cols, ixs)
  ELSE IF IndexColumn(EnsureIndexes[k]) \notin cols
    THEN [ok |-> FALSE, indexes |-> ixs]
    ELSE CreateIndexes(k + 1, cols, ixs \cup {EnsureIndexes[k]})

\* the statements of migrateSchema, in order
MigrationSteps ==
  <<"count", "begin1", "create", "copy", "commit1", "check", "begin2",
    "drop", "rename", "commit2", "index1", "index2", "index3">>

StepIndex(pc) == CHOOSE i \in 1..Len(MigrationSteps) : MigrationSteps[i] = pc

InMigration == \E i \in 1..Len(MigrationSteps) : MigrationSteps[i] = mig.pc

\* the statement after pc; after the last one migrateSchema returns
NextStep(pc) ==
  IF StepIndex(pc) < Len(MigrationSteps)
    THEN MigrationSteps[StepIndex(pc) + 1] ELSE "ensure"

\* the index the statement at pc creates
IndexAt(pc) ==
  CASE pc = "index1" -> "idx_downloaded_at"
    [] pc = "index2" -> "idx_from_address"
    [] pc = "index3" -> "idx_thread_id"

\* initDatabase: open the file, needsMigration
initDatabase ==
  /\ mig.pc \in {"idle", "failed", "done"}
  /\ before' = Database
  /\ \E inspectionFails \in BOOLEAN :
       mig' = [NoMigration EXCEPT
                 !.pc = IF needsMigrationOf(layout, inspectionFails)
                          THEN "count" ELSE "ensure"]
  /\ UNCHANGED <<ingestVars, fileVars, layout, emailsNew, indexes, txn, extVars>>

\* SELECT COUNT(*) as count FROM emails
MigrateCount ==
  /\ mig.pc = "count"
  /\ mig' = [mig EXCEPT !.pc = NextStep(@), !.oldCount = Len(emails)]
  /\ UNCHANGED <<ingestVars, fileVars, layout, emailsNew, indexes, txn,
                 before, extVars>>

\* BEGIN TRANSACTION (of the first and of the second exec)
MigrateBegin ==
  /\ mig.pc \in {"begin1", "begin2"}
  /\ txn = NoRecord
  /\ txn' = Database
  /\ mig' = [mig EXCEPT !.pc = NextStep(@)]
  /\ UNCHANGED <<ingestVars, fileVars, layout, emailsNew, indexes, before, extVars>>

\* CREATE TABLE emails_new (...)
MigrateCreate ==
  /\ mig.pc = "create"
  /\ ~emailsNew.exists
  /\ emailsNew' = [exists |-> TRUE, rows |-> <<>>]
  /\ mig' = [mig EXCEPT !.pc = NextStep(@)]
  /\ UNCHANGED <<ingestVars, fileVars, layout, indexes, txn, before, extVars>>

\* INSERT INTO emails_new SELECT ... FROM emails
MigrateCopy ==
  /\ mig.pc = "copy"
  /\ CopyRows(emails, emailsNew.rows).ok
  /\ emailsNew' = [emailsNew EXCEPT !.rows = CopyRows(emails, @).tbl]
  /\ mig' = [mig EXCEPT !.pc = NextStep(@)]
  /\ UNCHANGED <<ingestVars, fileVars, layout, indexes, txn, before, extVars>>

\* COMMIT (of the first and of the second exec)
MigrateCommit ==
  /\ mig.pc \in {"commit1", "commit2"}
  /\ txn' = NoRecord
  /\ mig' = [mig EXCEPT !.pc = NextStep(@)]
  /\ UNCHANGED <<ingestVars, fileVars, layout, emailsNew, indexes, before, extVars>>

\* SELECT COUNT(*) as count FROM emails_new; oldCount !== newCount
MigrateCheck ==
  /\ mig.pc = "check"
  /\ mig.oldCount = Len(emailsNew.rows)
  /\ mig' = [mig EXCEPT !.pc = NextStep(@)]
  /\ UNCHANGED <<ingestVars, fileVars, layout, emailsNew, indexes, txn,
                 before, extVars>>

\* DROP TABLE emails: the table goes with its indexes
MigrateDrop ==
  /\ mig.pc = "drop"
  /\ layout' = "none"
  /\ emails' = <<>>
  /\ indexes' = {}
  /\ mig' = [mig EXCEPT !.pc = NextStep(@)]
  /\ UNCHANGED <<mailbox, bad, link, daemon, exitCode, stateFile, runs, push,
                 response, storeLog, fileVars, emailsNew, txn, before, extVars>>

\* ALTER TABLE emails_new RENAME TO emails
MigrateRename ==
  /\ mig.pc = "rename"
  /\ layout = "none"
  /\ layout' = "new"
  /\ emails' = emailsNew.rows
  /\ emailsNew' = NoTable
  /\ mig' = [mig EXCEPT !.pc = NextStep(@)]
  /\ UNCHANGED <<mailbox, bad, link, daemon, exitCode, stateFile, runs, push,
                 response, storeLog, fileVars, indexes, txn, before, extVars>>

\* CREATE INDEX ... ON emails(...): each statement commits on its own
MigrateIndex ==
  /\ mig.pc \in {"index1", "index2", "index3"}
  /\ IndexAt(mig.pc) \notin indexes
  /\ indexes' = indexes \cup {IndexAt(mig.pc)}
  /\ mig' = [mig EXCEPT !.pc = NextStep(@)]
  /\ UNCHANGED <<ingestVars, fileVars, layout, emailsNew, txn, before, extVars>>

\* ROLLBACK: undoes the open transaction; without one it throws, which the
\* catch of migrateSchema ignores
Rollback(db, open) == IF open = NoRecord THEN db ELSE open

\* a statement of migrateSchema throws: the catch issues ROLLBACK and
\* rethrows, initDatabase rethrows
MigrateFail ==
  /\ InMigration
  /\ LET db == Rollback(Database, txn) IN
       /\ layout' = db.layout
       /\ emails' = db.emails
       /\ emailsNew' = db.emailsNew
       /\ indexes' = db.indexes
  /\ txn' = NoRecord
  /\ mig' = [mig EXCEPT !.pc = "failed", !.failedAt = mig.pc]
  /\ UNCHANGED <<mailbox, bad, link, daemon, exitCode, stateFile, runs, push,
                 response, storeLog, fileVars, before, extVars>>

\* CREATE TABLE IF NOT EXISTS emails, the three CREATE INDEX IF NOT EXISTS,
\* return db
initDatabaseEnsure ==
  /\ mig.pc = "ensure"
  /\ layout' = IF layout = "none" THEN "new" ELSE layout
  /\ LET created == CreateIndexes(1, TableColumns(layout'), indexes) IN
       /\ indexes' = created.indexes
       /\ mig' = IF created.ok
                   THEN [mig EXCEPT !.pc = "done"]
                   ELSE [mig EXCEPT !.pc = "failed", !.failedAt = "ensure"]
  /\ UNCHANGED <<emails, mailbox, bad, link, daemon, exitCode, stateFile,
                 runs, push, response, storeLog, fileVars, emailsNew, txn,
                 before, extVars>>

InitMigrate ==
  /\ mailbox = {}
  /\ bad = {}
  /\ link = "closed"
  /\ daemon = "starting"
  /\ exitCode = -1
  /\ stateFile = NoFile
  /\ runs = [r \in Handlers |-> RunIdle]
  /\ push = PushIdle
  /\ response = NoResponse
  /\ storeLog = [id \in AllIds |-> NotStored]
  /\ tmpFile = NoFile
  /\ upd = NoUpdate
  /\ emailsNew = NoTable
  /\ txn = NoRecord
  /\ mig = NoMigration
  /\ before = NoRecord
  /\ ExtInit
  /\ \/ /\ layout = "none"
        /\ emails = <<>>
        /\ indexes = {}
     \/ /\ layout = "old"
        /\ \E S \in SUBSET (1..MaxOldRows) : emails \in OldTables(S)
        /\ indexes = OldIndexes
     \/ /\ layout = "new"
        /\ emails \in {<<>>, <<BoundRow(FullPayload(String(1), "A"))>>}
        /\ indexes = NewIndexes
     \/ /\ layout = "mixed"
        /\ emails = <<>>
        /\ indexes \in {{}, NewIndexes}
     \/ /\ layout = "uid"
        /\ emails = <<>>
        /\ indexes = OldIndexes

NextMigrate ==
  \/ initDatabase
  \/ MigrateCount
  \/ MigrateBegin
  \/ MigrateCreate
  \/ MigrateCopy
  \/ MigrateCommit
  \/ MigrateCheck
  \/ MigrateDrop
  \/ MigrateRename
  \/ MigrateIndex
  \/ MigrateFail
  \/ initDatabaseEnsure

SpecMigrate == InitMigrate /\ [][NextMigrate]_vars

\* the process is killed inside initDatabase: SQLite discards the open
\* transaction when the file is opened again, what was committed stays
MigrateCrash ==
  /\ InMigration \/ mig.pc = "ensure"
  /\ LET db == Rollback(Database, txn) IN
       /\ layout' = db.layout
       /\ emails' = db.emails
       /\ emailsNew' = db.emailsNew
       /\ indexes' = db.indexes
  /\ txn' = NoRecord
  /\ mig' = NoMigration
  /\ UNCHANGED <<mailbox, bad, link, daemon, exitCode, stateFile, runs, push,
                 response, storeLog, fileVars, before, extVars>>

\* CREATE TABLE emails_new throws because the table exists
CreateThrows ==
  /\ mig.pc = "create"
  /\ emailsNew.exists
  /\ MigrateFail

\* initDatabase with a process that may be killed and started again, and
\* with no statement failing unless it cannot run
NextMigrateCrash ==
  \/ initDatabase
  \/ MigrateCount
  \/ MigrateBegin
  \/ MigrateCreate
  \/ MigrateCopy
  \/ MigrateCommit
  \/ MigrateCheck
  \/ MigrateDrop
  \/ MigrateRename
  \/ MigrateIndex
  \/ CreateThrows
  \/ MigrateCrash
  \/ initDatabaseEnsure

SpecMigrateCrash == InitMigrate /\ [][NextMigrateCrash]_vars

\* the columns a migrated row takes over unchanged
CopiedColumns == ColumnSet \ {"id", "thread_id"}

\* new-layout row n is old-layout row o migrated
IsMigrated(o, n) ==
  /\ n.id = CastAsText(o.id)
  /\ n.thread_id = ""
  /\ \A c \in CopiedColumns : n[c] = o[c]

\* C9: once a store that was in the old layout with M rows is in the
\* current layout, it holds exactly M rows, and every old row is there once
\* with its id as text, an empty thread_id and its other fields unchanged.
C9_MigrationParity ==
  (mig.pc # "idle" /\ before.layout = "old" /\ layout = "new") =>
    /\ Len(emails) = Len(before.emails)
    /\ \A i \in 1..Len(before.emails) :
         Cardinality({j \in 1..Len(emails) :
                        IsMigrated(before.emails[i], emails[j])}) = 1
    /\ \A j \in 1..Len(emails) :
         \E i \in 1..Len(before.emails) :
           IsMigrated(before.emails[i], emails[j])

\* initDatabase has returned after migrating two rows, one with a cc
C9_Witness ==
  /\ mig.pc = "done"
  /\ before.layout = "old"
  /\ layout = "new"
  /\ Len(before.emails) >= 2
  /\ \E i \in 1..Len(before.emails) : before.emails[i].cc_address # Null

\* C10: when a statement of the migration has failed and initDatabase has
\* thrown, the database is as it was when initDatabase was called: the old
\* table with its rows and indexes, and no table emails_new.
C10_FailureRestoresOriginal ==
  (mig.pc = "failed" /\ mig.failedAt # "ensure") => Database = before

\* C11: the rows are counted and compared inside the transaction that builds
\* emails_new, before it commits: table emails_new never exists outside an
\* open transaction, and the old table is dropped only after the counts were
\* found equal.
C11_CountCheckedBeforeCommit ==
  /\ mig.pc = "check" => txn # NoRecord
  /\ emailsNew.exists => txn # NoRecord
  /\ mig.pc = "drop" => mig.oldCount = Len(emailsNew.rows)

\* C12: initDatabase returns a handle only on a store in the current layout.
C12_NoHandleOnMismatchedLayout ==
  mig.pc = "done" => layout = "new"


(***************************************************************************)
(* Properties of the persisted state under the mailbox path.               *)
(***************************************************************************)
\* the first message of a fresh mailbox has been processed and stored by a
\* handler of the running daemon
FirstMessageProcessed ==
  /\ daemon = "running"
  /\ mailbox = {1}
  /\ \E h \in Handlers : runs[h].pc = "idle" /\ runs[h].res = <<"stored">>

\* C13: after a first run on an empty store without state file, once the one
\* message of the mailbox is processed the store holds one row, last_id is
\* the id of the message and the phase is connected.
C13_FirstRunEndToEnd ==
  FirstMessageProcessed =>
    /\ Len(emails) = 1
    /\ "last_id" \in DOMAIN stateFile
    /\ stateFile.last_id = String(1)
    /\ stateFile.connection_status = "connected"

\* C17: the phase starts as disconnected, is always one of the three phases,
\* and reads connected exactly while the daemon runs on an established
\* connection.
C17_PhaseFollowsConnection ==
  daemon = "running" =>
    /\ stateFile.connection_status \in ValidStatuses
    /\ stateFile.connection_status = "connected" <=> link = "up"

\* a handler has reported a failure and nothing was stored since startup
FailureWithoutSuccess ==
  /\ daemon = "running"
  /\ \E k \in ErrorResults : Results(k) # {}
  /\ \A id \in AllIds : storeLog[id].n = 0

\* C18: after a failure that no success has followed, last_error of the
\* persisted state describes it.
C18_FailureSetsLastError ==
  FailureWithoutSuccess => stateFile.last_error # Null


(***************************************************************************)
(* Properties of the push endpoint.                                        *)
(***************************************************************************)
\* the fields the webhook contract declares required
MandatoryFields == {"id", "thread_id", "received_at", "downloaded_at",
                    "from_address", "to_address", "subject", "labels", "body"}

\* the mandatory fields that are absent or null in a payload
MissingMandatory(payload) ==
  {f \in MandatoryFields : f \notin DOMAIN payload \/ payload[f] = Null}

\* C14: a parsed payload that lacks a mandatory field is answered 400 with
\* code VALIDATION_ERROR.
C14_MissingMandatoryIs400 ==
  (response.status # 0 /\ response.payload # NoRecord
     /\ MissingMandatory(response.payload) # {})
    => (response.status = 400 /\ response.action = "VALIDATION_ERROR")

\* the server has answered the request whose INSERT was pending
PushAnswered == push.pc = "insert" /\ push'.pc # "insert"

\* C15: a request whose INSERT fails with another error than a duplicate id
\* is answered 500 with code DATABASE_ERROR and writes no row; 500 is
\* answered for nothing else; the server goes on taking requests, and a
\* valid payload that reaches the store after a 500 is answered 200.
C15_StoreFailureIs500 ==
  /\ [][PushAnswered =>
          LET ins == storeEmailInsert(emails, push.payload) IN
            /\ (~ins.ok /\ ins.err # "UNIQUE constraint failed")
                 => /\ response'.status = 500
                    /\ response'.action = "DATABASE_ERROR"
                    /\ emails' = emails
            /\ response'.status = 500 => ~ins.ok
            /\ (response.status = 500 /\ Bindable(push.payload))
                 => response'.status = 200]_vars
  /\ [](push.pc \in {"idle", "insert"})
  /\ [](response.status = 500 => response.action = "DATABASE_ERROR")

\* after a 500 the server is handling a valid payload
C15_Witness ==
  /\ response.status = 500
  /\ push.pc = "insert"
  /\ push.payload = FullPayload(String(1), "A")

\* a step of the webhook server
PushStep == push' # push \/ response' # response

\* C16: no step of the push endpoint changes the state file, its temp file,
\* the mailbox or a handler of the daemon; a step that answers 400 writes no
\* row; a request that is refused, or whose payload fails the validation,
\* is answered 400 and never reaches the store.
C16_PushLeavesStateAlone ==
  /\ [][PushStep =>
          /\ stateFile' = stateFile
          /\ tmpFile' = tmpFile
          /\ runs' = runs
          /\ mailbox' = mailbox
          /\ response'.status = 400 => emails' = emails]_vars
  /\ []((response.status # 0 /\ MissingFields(response.payload) # {})
          => response.status = 400)
  /\ [](push.pc = "insert" => MissingFields(push.payload) = {})

\* a request was refused while the daemon has stored a message and written
\* its state
C16_Witness ==
  /\ response.status = 400
  /\ response.action = "INVALID_JSON"
  /\ emails # <<>>
  /\ daemon = "running"
  /\ "last_id" \in DOMAIN stateFile


\* C23: once the mailbox path has stored a message, last_error is null,
\* last_id is the id of that message, and the position the next enumeration
\* filters with (state.last_uid) is that id.
C23_StoredAdvancesBound ==
  "last_id" \in DOMAIN stateFile =>
    /\ stateFile.last_error = Null
    /\ RowCount(stateFile.last_id) = 1
    /\ String(stateFile.last_uid) = stateFile.last_id

\* handler h has just been answered duplicate for its current candidate
DuplicateAnswered(h) ==
  /\ Len(runs'[h].res) = Len(runs[h].res) + 1
  /\ runs'[h].res[Len(runs'[h].res)] = "duplicate"

\* C24: the step in which a handler is answered duplicate changes neither
\* the state file, nor its temp file, nor the store.
C24_DuplicateLeavesStateAlone ==
  [][\A h \in Handlers :
       DuplicateAnswered(h) =>
         /\ stateFile' = stateFile
         /\ tmpFile' = tmpFile
         /\ emails' = emails]_vars

\* the mailbox path was answered duplicate and no last_id was ever written
C24_Witness ==
  /\ Results("duplicate") # {}
  /\ daemon = "running"
  /\ "last_id" \notin DOMAIN stateFile

\* C25: last_id is absent (nothing stored yet) or the id of a row of the
\* store.
C25_LastIdIsStored ==
  (stateFile # NoFile /\ "last_id" \in DOMAIN stateFile)
    => RowCount(stateFile.last_id) = 1

\* the second message was stored last and both rows are there
C25_Witness ==
  /\ stateFile # NoFile
  /\ "last_id" \in DOMAIN stateFile
  /\ stateFile.last_id = String(2)
  /\ RowCount(String(1)) = 1
  /\ RowCount(String(2)) = 1

\* C28: the process of the daemon ends only on a shutdown signal (exit code
\* 0), never because a connection could not be made or was lost.
C28_ConnectFailureNotFatal ==
  daemon = "exited" => exitCode = 0


\* C26: within one batch the candidates are processed in ascending order:
\* a candidate that has been processed is smaller than every candidate that
\* comes after it in the batch.
C26_AscendingWithinBatch ==
  \A h \in Handlers :
    \A i \in 1..Len(runs[h].res) :
      \A j \in 1..Len(runs[h].newUids) :
        i < j => runs[h].newUids[i] < runs[h].newUids[j]

\* C27: on a first run no message that was in the mailbox, read, before the
\* daemon started is stored by the mailbox path.
C27_FirstRunSkipsHistory ==
  \A u \in Historical : RowCount(String(u)) = 0

InShutdown == daemon \in {"stopping", "storeClosed"}

C30_LabelsParseAsArray ==
  \A i \in 1..Len(emails) : IsJsonArray(emails[i].labels)


\* C31: no step of the running system changes or removes a stored row: the
\* rows of the store before a step are the first rows after it, and the
\* count does not decrease.
C31_RowsNeverChange ==
  [][/\ countEmails(emails') >= countEmails(emails)
     /\ \A i \in 1..Len(emails) : emails'[i] = emails[i]]_vars

\* the mailbox path stored message 1, a push of the same id was answered
\* skipped afterwards, and message 2 was stored after it
C31_Witness ==
  /\ countEmails(emails) = 2
  /\ emails[1].id = String(1)
  /\ emails[1].body = "M"
  /\ emails[2].id = String(2)
  /\ response.status = 200
  /\ response.action = "skipped"
  /\ response.id = String(1)


\* the ids of the rows of a sequence of rows
IdsOf(rows) == {rows[i].id : i \in 1..Len(rows)}

\* C32: getEmailsByThread returns the stored rows whose thread_id is the
\* argument, each once, in ascending order of received_at; for the empty id
\* and for an id without rows it returns the empty sequence.
C32_ThreadQuery ==
  query.pc = "returned" =>
    /\ \A i \in 1..Len(query.rows) :
         /\ query.rows[i].thread_id = query.threadId
         /\ \E k \in 1..Len(query.tbl) : query.tbl[k] = query.rows[i]
    /\ \A k \in 1..Len(query.tbl) :
         (query.tbl[k].thread_id = query.threadId /\ query.threadId # "")
           => query.tbl[k].id \in IdsOf(query.rows)
    /\ Cardinality(IdsOf(query.rows)) = Len(query.rows)
    /\ \A i, j \in 1..Len(query.rows) :
         i < j => TextLeq(query.rows[i].received_at, query.rows[j].received_at)
    /\ query.threadId = "" => query.rows = <<>>
    /\ (\A k \in 1..Len(query.tbl) : query.tbl[k].thread_id # query.threadId)
         => query.rows = <<>>

\* three messages of one thread, inserted latest first next to a message
\* without thread, come back earliest first
C32_Witness ==
  /\ query.pc = "returned"
  /\ query.threadId = "T1"
  /\ Len(query.tbl) = 4
  /\ \E k \in 1..4 : query.tbl[k].thread_id = ""
  /\ Len(query.rows) = 3
  /\ query.rows[1].received_at = Times[1]
  /\ query.rows[2].received_at = Times[2]
  /\ query.rows[3].received_at = Times[3]
  /\ query.rows[1].id = String(4)


\* C33: the process of the webhook server exits with code 0, with the
\* database closed, after a clean close and after the timeout alike.
C33_ServerExitsZero ==
  server.pc = "exited" => ~server.dbOpen /\ server.exitCode = 0

\* C39: every request whose handler has returned was answered once, the
\* one in flight not yet, and every status is 200, 400 or 500; the step that
\* answers PAYLOAD_TOO_LARGE answers 400, has no parsed payload and leaves
\* the store as it is.
C39_OneResponsePerRequest ==
  /\ [](server.answers + (IF server.inflight THEN 1 ELSE 0)
          = server.requests)
  /\ [](response.status \in {0, 200, 400, 500})
  /\ [](server.answers > 0 => response.status # 0)
  /\ [][(server'.answers # server.answers
            /\ response'.action = "PAYLOAD_TOO_LARGE")
          => /\ response'.status = 400
             /\ response'.payload = NoRecord
             /\ emails' = emails]_vars

\* a first request was stored; the second, oversized, was answered
\* PAYLOAD_TOO_LARGE and the end of its body has been seen since
C39_Witness ==
  /\ server.requests = 2
  /\ server.answers = 2
  /\ ~server.inflight
  /\ ~server.drain
  /\ response.status = 400
  /\ response.action = "PAYLOAD_TOO_LARGE"
  /\ Len(emails) = 1


\* C34: no start fails at CREATE TABLE emails_new, that is, because of the
\* table an interrupted migration left behind.
C34_RestartAfterCrash ==
  mig.pc = "failed" => mig.failedAt # "create"


\* the UIDs whose row was written by the mailbox path
MailStored ==
  {u \in Uids : RowCount(String(u)) = 1 /\ TheRow(String(u)).body = "M"}

\* two runs of the 'mail' handler, started by two events, have finished and
\* both had messages 1 and 2 as candidates
BothRunsOverlapped ==
  /\ daemon = "running"
  /\ \A h \in Handlers :
       /\ runs[h].pc = "idle"
       /\ {1, 2} \subseteq {runs[h].newUids[i] : i \in 1..Len(runs[h].newUids)}

\* C35: when two interleaved runs over the same candidates have finished and
\* every candidate is in the store once, last_id is the greatest id the
\* mailbox path stored.
C35_InterleavedRunsEndAtGreatest ==
  (BothRunsOverlapped /\ \A u \in {1, 2} : u \in MailStored)
    => /\ "last_id" \in DOMAIN stateFile
       /\ \A u \in MailStored : u <= UidOf(stateFile.last_id)

\* C36: last_id never moves backwards: once written it is at least the id
\* of every message the mailbox path has stored.
C36_LastIdMonotonic ==
  (stateFile # NoFile /\ "last_id" \in DOMAIN stateFile)
    => \A u \in MailStored : UidOf(stateFile.last_id) >= u

AttemptsOf(r) ==
  {k \in 1..Len(producer.log) : producer.log[k].row = r}

\* row r was answered 2xx in the run
Succeeded(r) ==
  \E k \in AttemptsOf(r) : IsSuccess(producer.log[k].code)

\* C40: in a run of broadcastMessages the rows are sent in sheet order; a
\* row gets its broadcasted_at in the run only after a 2xx answer; a row
\* that had it at the start, or that was answered 2xx, is not sent (again);
\* a row is sent at most 3 times; after 3 failures the run has halted and no
\* later row is sent before every earlier unsent row succeeded.
C40_BroadcastInOrder ==
  producer.pc # "idle" =>
    /\ \A j, k \in 1..Len(producer.log) :
         j < k => producer.log[j].row <= producer.log[k].row
    /\ \A r \in 1..Len(producer.data) :
         /\ (producer.sheet[r] /\ ~producer.data[r]) => Succeeded(r)
         /\ producer.data[r] => AttemptsOf(r) = {}
         /\ Cardinality(AttemptsOf(r)) <= MAX_RETRIES
         /\ \A j, k \in AttemptsOf(r) :
              j < k => ~IsSuccess(producer.log[j].code)
         /\ (Cardinality(AttemptsOf(r)) = MAX_RETRIES /\ ~Succeeded(r))
              => producer.pc = "halted"
         /\ \A q \in 1..Len(producer.data) :
              (r < q /\ AttemptsOf(q) # {})
                => producer.data[r] \/ Succeeded(r)

\* the first row succeeded at its third attempt, the second failed three
\* times and the run halted
C40_Witness ==
  /\ producer.pc = "halted"
  /\ producer.data = <<FALSE, FALSE>>
  /\ producer.sheet = <<TRUE, FALSE>>
  /\ Len(producer.log) = 6
  /\ producer.log[3] = [row |-> 1, code |-> 200]
  /\ producer.log[6].row = 2

=============================================================================
